---- MODULE Spec2Model ----
(***************************************************************************)
(* Feed aggregation of src/lib/rss.ts: getPosts() (primary feed + archive  *)
(* crawl of the site map, batched) and getPodcasts() (primary feed +       *)
(* static fallback table), and the excerpt normalizer cleanExcerpt().      *)
(*                                                                         *)
(* Text is modelled as a sequence of tokens.  A title is a sequence of     *)
(* words, blanks and markers; a URL is the origin, the "/p/" path prefix   *)
(* and the tokens of the slug; String.includes is sub-sequence inclusion   *)
(* on tokens.  A date string is a pair <<kind, n>>: Date parsing yields    *)
(* the time n, or NaN for a string that is no date.                        *)
(***************************************************************************)
EXTENDS Integers, Sequences, FiniteSets, TLC

\* ------------------------------------------------------------------ bounds
MaxFeed == 2          \* items in the primary feed
MaxSitemap == 2       \* <loc> entries of the site map (aggregation scenario)
MaxCrawl == 12        \* <loc> entries of the site map (crawl scenario)
MaxText == 4          \* characters of an excerpt source text
MaxLen == 3           \* largest maxLength given to cleanExcerpt

\* ------------------------------------------------------- generic helpers
Range(s) == {s[i] : i \in DOMAIN s}

RECURSIVE SelectIdx(_, _, _)
\* the elements of s at the indices (ascending) in set I, from index i on
SelectIdx(s, I, i) ==
    IF i > Len(s) THEN <<>>
    ELSE (IF i \in I THEN <<s[i]>> ELSE <<>>) \o SelectIdx(s, I, i + 1)

\* Array.prototype.filter, keeping the elements at the indices in Keep
FilterIdx(s, Keep) == SelectIdx(s, Keep, 1)

\* String.prototype.includes on token sequences
Includes(s, p) ==
    \E i \in 0..(Len(s) - Len(p)) : SubSeq(s, i + 1, i + Len(p)) = p

Occurrences(s, x) == Cardinality({i \in DOMAIN s : s[i] = x})

Min2(a, b) == IF a <= b THEN a ELSE b

\* ---------------------------------------------------------------- tokens
HEADPHONES == "[headphones]"
Blanks == {" ", "\n"}
Digits == {"5", "7", "8", "12"}
EpisodeWords == {"Episode", "episode", "EPISODE"}
SiteSuffix == " - Still Small"

IsBlank(c) == c \in Blanks

\* String.prototype.trim
RECURSIVE TrimLeft(_)
TrimLeft(s) ==
    IF s # <<>> /\ IsBlank(Head(s)) THEN TrimLeft(Tail(s)) ELSE s

RECURSIVE TrimRight(_)
TrimRight(s) ==
    IF s # <<>> /\ IsBlank(s[Len(s)]) THEN TrimRight(SubSeq(s, 1, Len(s) - 1))
    ELSE s

Trim(s) == TrimRight(TrimLeft(s))

\* -------------------------------------------------------------- dates
NaN == 0 - 1

\* new Date(s).getTime(): the time of a date string, NaN when s is no date
GetTime(d) == IF d[1] = "bad" THEN NaN ELSE d[2]

\* new Date().toISOString() at clock reading t
ToISOString(t) == <<"iso", t>>

NoDate == <<"none", 0>>      \* pubDate absent (undefined)
BadDate == <<"bad", 0>>      \* a string Date cannot parse
Ymd(n) == <<"ymd", n>>


\* ------------------------------------------------------------------ URLs
Origin == "https://stillsmall.substack.com"
PostPrefix == <<Origin, "/p/">>          \* the prefix the site-map regex requires
PostUrl(slug) == PostPrefix \o slug
NoLink == <<>>                            \* item.link absent: '' after `|| ''`

UrlShow8 == PostUrl(<<"8-new-show">>)
UrlOld == PostUrl(<<"an-older-essay">>)
UrlAbout == <<Origin, "/about">>
UrlAwe7 == PostUrl(<<"7-maintaining-awe-and-wonder">>)
UrlRoute6 == PostUrl(<<"6-the-unconventional-route">>)
UrlEp(slug) == PostUrl(<<"episode-", slug>>)
UrlEp5 == UrlEp("5-creativity-and-connection")
\* the pages of the crawl scenario
CrawlUrl(k) == PostUrl(<<"archive-", ToString(k)>>)

\* rss.ts:189-194
EXCLUDED_URL_PATTERNS ==
    << <<"/p/", "episode-">>,
       <<"/p/", "7-maintaining-awe-and-wonder">>,
       <<"/p/", "6-the-unconventional-route">>,
       <<"/p/", "welcome-to-still-small">> >>

isExcludedUrl(url) ==
    \E k \in DOMAIN EXCLUDED_URL_PATTERNS : Includes(url, EXCLUDED_URL_PATTERNS[k])

\* ---------------------------------------------------------------- titles
NoTitle == <<>>                           \* item.title absent
TitlePlain == <<"Hello", " ", "World">>
TitleEmoji == <<HEADPHONES, " ", "New", " ", "Show">>
TitleEpisode == <<"Episode", " ", "5", " ", "Creativity">>
TitleNumbered == <<"7", ".", " ", "Maintaining", " ", "Awe">>

\* /episode\s*\d/i.test(title)
MatchesEpisodeDigit(title) ==
    \E i \in DOMAIN title : \E j \in DOMAIN title :
        /\ i < j
        /\ title[i] \in EpisodeWords
        /\ title[j] \in Digits
        /\ \A k \in (i + 1)..(j - 1) : IsBlank(title[k])

\* isPodcastEpisode with the enclosure consulted too (the attachment heuristic)
isPodcastEpisodeByEnclosure(item) ==
    \/ item.enclosure = "audio/mpeg"
    \/ Includes(item.title, <<HEADPHONES>>)
    \/ MatchesEpisodeDigit(item.title)

\* rss.ts:33-40: by title only (item.title || '')
isPodcastEpisode(item) ==
    \/ Includes(item.title, <<HEADPHONES>>)
    \/ MatchesEpisodeDigit(item.title)

\* a CustomItem: enclosure is the attachment's media type, "none" when absent
Item(t, l, d, e) == [title |-> t, link |-> l, pubDate |-> d, enclosure |-> e]

\* a SubstackPost / PodcastEpisode (the fields the aggregation reads)
Entry(t, l, d) == [title |-> t, link |-> l, pubDate |-> d]

\* rss.ts:97-106; `now` is the clock reading of new Date()
transformToPost(item, now) ==
    Entry(IF item.title = NoTitle THEN <<"Untitled">> ELSE item.title,
          item.link,
          IF item.pubDate = NoDate THEN ToISOString(now) ELSE item.pubDate)

\* title.replace(/^<headphones>\s*/, '').trim()
StripEmojiPrefix(title) ==
    IF title # <<>> /\ Head(title) = HEADPHONES THEN Trim(Tail(title)) ELSE Trim(title)

\* rss.ts:108-121
transformToPodcast(item, now) ==
    Entry(StripEmojiPrefix(IF item.title = NoTitle THEN <<"Untitled Episode">>
                           ELSE item.title),
          item.link,
          IF item.pubDate = NoDate THEN ToISOString(now) ELSE item.pubDate)

\* rss.ts:237-287
STATIC_PODCASTS ==
    << Entry(<<"Maintaining Awe and Wonder with Sara Kaiser">>, UrlAwe7, Ymd(20231018)),
       Entry(<<"The Unconventional Route with Chris Blachut">>, UrlRoute6, Ymd(20230927)),
       Entry(<<"Creativity and Connection with Rachael Maier">>, UrlEp5, Ymd(20230913)),
       Entry(<<"Prioritizing Relationships with Jason Lakis">>,
             UrlEp("4-prioritizing-relationships"), Ymd(20230830)),
       Entry(<<"Middle School Feelings with Rachel">>,
             UrlEp("3-middle-school-feelings"), Ymd(20230816)),
       Entry(<<"Mother-Daughter Relationships with Elise Porter">>,
             UrlEp("2-mother-daughter-relationships"), Ymd(20230802)),
       Entry(<<"The Decision to Have Children with Allison Doering">>,
             UrlEp("1-the-decision-to-have-children"), Ymd(20230719)) >>

\* ------------------------------------------------------------- archive pages
\* the meta tags of a fetched page; NoTitle / NoDate when the tag is absent
Html(og, doc, pub, json) ==
    [ogTitle |-> og, docTitle |-> doc, publishedTime |-> pub, datePublished |-> json]

PageFull == Html(<<"An", " ", "Older", " ", "Essay">>, NoTitle, Ymd(20220505), NoDate)
PagePodcast == Html(TitleEmoji, NoTitle, Ymd(20240110), NoDate)
PageBare == Html(NoTitle, NoTitle, NoDate, NoDate)
PageTagged == Html(NoTitle, <<"Old", " ", "Notes", SiteSuffix>>, NoDate, BadDate)

\* what the site may serve behind a URL of the aggregation scenario
PagesAt(u) ==
    IF Includes(u, <<"8-new-show">>) THEN {PagePodcast, PageBare}
    ELSE {PageFull, PageTagged}

\* String.prototype.replace(' - Still Small', ''): the first occurrence only
RECURSIVE RemoveFirst(_, _)
RemoveFirst(s, tok) ==
    IF s = <<>> THEN <<>>
    ELSE IF Head(s) = tok THEN Tail(s)
    ELSE <<Head(s)>> \o RemoveFirst(Tail(s), tok)

NullPost == Entry(<<>>, <<>>, NoDate)

\* rss.ts:155-181: the post scraped from a page's meta tags
ScrapePost(url, html, now) ==
    LET titleMatch == IF html.ogTitle # NoTitle THEN html.ogTitle ELSE html.docTitle
        title == IF titleMatch # NoTitle
                 THEN Trim(RemoveFirst(titleMatch, SiteSuffix))
                 ELSE <<"Untitled">>
        dateMatch == IF html.publishedTime # NoDate THEN html.publishedTime
                     ELSE html.datePublished
        pubDate == IF dateMatch # NoDate THEN dateMatch ELSE ToISOString(now)
    IN Entry(title, url, pubDate)

\* fetchPostMetadata with the try/catch left out: a failed fetch rejects
fetchPostMetadataNoCatch(url, ok, html, now) ==
    [threw |-> ~ok, isNull |-> FALSE, logged |-> FALSE,
     post |-> IF ok THEN ScrapePost(url, html, now) ELSE NullPost]

\* rss.ts:150-186: ok is whether fetch(url) and response.text() succeed
fetchPostMetadata(url, ok, html, now) ==
    IF ok
    THEN [threw |-> FALSE, isNull |-> FALSE, logged |-> FALSE,
          post |-> ScrapePost(url, html, now)]
    ELSE [threw |-> FALSE, isNull |-> TRUE, logged |-> TRUE, post |-> NullPost]

\* ------------------------------------------------------------------- sort
\* (a, b) => new Date(b.pubDate).getTime() - new Date(a.pubDate).getTime();
\* a NaN result counts as +0 (ECMAScript SortCompare)
CompareByDate(a, b) ==
    LET ta == GetTime(a.pubDate)
        tb == GetTime(b.pubDate)
    IN IF ta = NaN \/ tb = NaN THEN 0 ELSE tb - ta

RECURSIVE InsertSorted(_, _, _)
\* x inserted into `sorted` after the last of its first j elements that the
\* comparator does not place after x
InsertSorted(sorted, x, j) ==
    IF j = 0 \/ CompareByDate(sorted[j], x) <= 0
    THEN SubSeq(sorted, 1, j) \o <<x>> \o SubSeq(sorted, j + 1, Len(sorted))
    ELSE InsertSorted(sorted, x, j - 1)

RECURSIVE SortFrom(_, _, _)
SortFrom(list, sorted, k) ==
    IF k > Len(list) THEN sorted
    ELSE SortFrom(list, InsertSorted(sorted, list[k], Len(sorted)), k + 1)

\* Array.prototype.sort with CompareByDate: stable; with an unparseable date the
\* comparator is inconsistent and the order is the engine's (here: insertion)
SortByDate(list) == SortFrom(list, <<>>, 1)

\* ------------------------------------------------------ excerpt normalizer
Ellipsis == <<".", ".", ".">>

\* the characters of an excerpt source: a letter, blanks, entities
TextChars == {"a", " ", "\n", "&amp;", "&#32;"}

\* rss.ts:77-87, one token at a time: an entity becomes its character
DecodeChar(c) ==
    CASE c \in {"&#x27;", "&#39;", "&apos;"} -> "'"
      [] c = "&quot;" -> "\""
      [] c = "&amp;" -> "&"
      [] c = "&lt;" -> "<"
      [] c = "&gt;" -> ">"
      [] c = "&#32;" -> " "
      [] OTHER -> c

decodeHtmlEntities(text) == [k \in DOMAIN text |-> DecodeChar(text[k])]

RECURSIVE CollapseBlanks(_)
\* replace(/\s+/g, ' ')
CollapseBlanks(s) ==
    IF s = <<>> THEN <<>>
    ELSE IF IsBlank(Head(s))
         THEN IF Len(s) > 1 /\ IsBlank(s[2]) THEN CollapseBlanks(Tail(s))
              ELSE <<" ">> \o CollapseBlanks(Tail(s))
         ELSE <<Head(s)>> \o CollapseBlanks(Tail(s))

\* the truncated text kept as it is
KeepLastWord(s) == s

\* replace(/\s+\S*$/, ''): the leftmost blank from which only blanks and then
\* only non-blanks follow, and everything after it, removed
StripLastWord(s) ==
    LET M == {i \in DOMAIN s :
                 /\ IsBlank(s[i])
                 /\ \E j \in i..Len(s) :
                       /\ \A k \in i..j : IsBlank(s[k])
                       /\ \A k \in (j + 1)..Len(s) : ~IsBlank(s[k])}
    IN IF M = {} THEN s
       ELSE SubSeq(s, 1, (CHOOSE i \in M : \A m \in M : i <= m) - 1)

\* rss.ts:89-95; snippet.present is FALSE for undefined
cleanExcerpt(snippet, maxLength) ==
    IF ~snippet.present \/ snippet.text = <<>> THEN <<>>
    ELSE LET decoded == decodeHtmlEntities(snippet.text)
             cleaned == Trim(CollapseBlanks(decoded))
         IN IF Len(cleaned) <= maxLength THEN cleaned
            ELSE StripLastWord(SubSeq(cleaned, 1, maxLength)) \o Ellipsis

\* ------------------------------------------------------- the remote site
ItemPost == Item(TitlePlain, UrlOld, Ymd(20240105), "image/jpeg")
ItemShow == Item(TitleEmoji, UrlShow8, Ymd(20240110), "audio/mpeg")
ItemAwe7 == Item(TitleNumbered, UrlAwe7, Ymd(20231018), "audio/mpeg")
ItemEp5 == Item(TitleEpisode, UrlEp5, BadDate, "audio/mpeg")
ItemEmpty == Item(NoTitle, NoLink, NoDate, "none")
FeedItems == {ItemPost, ItemShow, ItemAwe7, ItemEp5, ItemEmpty}

SitemapLocs == {UrlOld, UrlShow8, UrlEp5}

SeqsUpTo(S, n) == UNION {[1..k -> S] : k \in 0..n}

\* ------------------------------------------------------------------ state
VARIABLES
    net,          \* the remote site: feed items, site-map <loc>s, the pages a URL
                  \* may serve, the URLs whose fetch may fail
    pcPosts,      \* getPosts: "start", "sitemap", "loop", "await", "done", "threw"
    rssPosts,     \* getPosts: feed-derived posts
    olderUrls,    \* getPosts: site-map URLs selected for the crawl
    offset,       \* getPosts: the loop variable i
    results,      \* getPosts: per selected URL, its fetchPostMetadata promise
    olderPosts,   \* getPosts: archive-derived posts
    posts,        \* getPosts: the returned list
    pcPodcasts,   \* getPodcasts: "start", "done", "threw"
    rssEpisodes,  \* getPodcasts: feed-derived episodes
    podcasts,     \* getPodcasts: the returned list
    fetchCount,   \* fetch(url) calls issued by fetchPostMetadata, per URL
    errorLog,     \* console.error calls
    clock,        \* the time new Date() reads; it advances with every step
    excerptCall   \* a call of cleanExcerpt: its arguments and its result

feedVars == <<net, pcPosts, rssPosts, olderUrls, offset, results, olderPosts, posts,
              pcPodcasts, rssEpisodes, podcasts, fetchCount, errorLog, clock>>

vars == <<feedVars, excerptCall>>

\* rss.ts:218
batchSize == 10

Idle == [st |-> "idle", post |-> NullPost]
Pending == [st |-> "pending", post |-> NullPost]

InitLocals ==
    /\ pcPosts = "start"
    /\ rssPosts = <<>>
    /\ olderUrls = <<>>
    /\ offset = 0
    /\ results = <<>>
    /\ olderPosts = <<>>
    /\ posts = <<>>
    /\ pcPodcasts = "start"
    /\ rssEpisodes = <<>>
    /\ podcasts = <<>>
    /\ fetchCount = [u \in Range(net.sitemap) |-> 0]
    /\ errorLog = {}
    /\ clock = 20260101

NoCall == [pc |-> "none", snippet |-> [present |-> FALSE, text |-> <<>>],
           maxLength |-> 0, out |-> <<>>]

\* aggregation scenario: any small feed and site map, any page behind a URL
InitAggregate ==
    /\ \E f \in SeqsUpTo(FeedItems, MaxFeed) : \E m \in SeqsUpTo(SitemapLocs, MaxSitemap) :
           net = [feed |-> f, sitemap |-> m, pages |-> [u \in Range(m) |-> PagesAt(u)],
                  flaky |-> Range(m)]
    /\ InitLocals
    /\ excerptCall = NoCall

\* the pages of the crawl scenario whose fetch may fail: in the first batch
\* (one of them listed again in the second) and in the second
CrawlFlaky == {CrawlUrl(1), CrawlUrl(2), CrawlUrl(5), CrawlUrl(batchSize),
               CrawlUrl(MaxCrawl - 1)}

\* crawl scenario: a site map longer than one batch, led by a page that is no
\* post, its last entry repeating the first post; one page may carry a podcast
\* title
InitCrawl ==
    /\ LET m == <<UrlAbout>> \o
                 [k \in 1..MaxCrawl |-> CrawlUrl(((k - 1) % (MaxCrawl - 1)) + 1)]
       IN net = [feed |-> <<>>,
                 sitemap |-> m,
                 pages |-> [u \in Range(m) |->
                               IF u = CrawlUrl(2) THEN {PageFull, PagePodcast}
                               ELSE {PageFull}],
                 flaky |-> CrawlFlaky]
    /\ InitLocals
    /\ excerptCall = NoCall

Init == InitAggregate

\* ------------------------------------------------------------ the fetchers
\* fetchSubstackFeed answering the feed's items even when the fetch failed
fetchSubstackFeedStale(ok) ==
    [threw |-> FALSE, items |-> net.feed, logged |-> ~ok]

\* rss.ts:123-131: ok is whether parser.parseURL succeeds
fetchSubstackFeed(ok) ==
    IF ok THEN [threw |-> FALSE, items |-> net.feed, logged |-> FALSE]
    ELSE [threw |-> FALSE, items |-> <<>>, logged |-> TRUE]

\* the <loc> regex: https://stillsmall.substack.com/p/ followed by a slug
MatchesLocRegex(u) == Len(u) > Len(PostPrefix) /\ SubSeq(u, 1, Len(PostPrefix)) = PostPrefix

\* rss.ts:133-148: ok is whether fetch and response.text() succeed
fetchSitemapUrls(ok) ==
    IF ok
    THEN [urls |-> FilterIdx(net.sitemap,
                             {k \in DOMAIN net.sitemap : MatchesLocRegex(net.sitemap[k])}),
          logged |-> FALSE]
    ELSE [urls |-> <<>>, logged |-> TRUE]

\* ---------------------------------------------------------------- getPosts
\* rss.ts:203-205
RssPostsOf(items, now) ==
    LET kept == FilterIdx(items, {k \in DOMAIN items : ~isPodcastEpisode(items[k])})
    IN [k \in DOMAIN kept |-> transformToPost(kept[k], now)]

\* rss.ts:211-214
OlderUrlsOf(sitemapUrls, feedPosts) ==
    LET rssUrls == {feedPosts[j].link : j \in DOMAIN feedPosts}
    IN FilterIdx(sitemapUrls,
                 {k \in DOMAIN sitemapUrls :
                     sitemapUrls[k] \notin rssUrls /\ ~isExcludedUrl(sitemapUrls[k])})

\* a batch holding every remaining URL
BatchUnbounded(i, n) == (i + 1)..n

\* rss.ts:220: olderUrls.slice(i, i + batchSize), as indices of olderUrls
Batch(i, n) == (i + 1)..Min2(i + batchSize, n)

\* rss.ts:222-226: the batch's non-null results whose title is no podcast's
KeptResults(res, batch) ==
    LET keep == {k \in batch :
                    /\ res[k].st = "post"
                    /\ ~isPodcastEpisode(Item(res[k].post.title, NoLink, NoDate, "none"))}
        sel == FilterIdx(res, keep)
    IN [k \in DOMAIN sel |-> sel[k].post]

\* rss.ts:202-205
PostsFetchFeed ==
    /\ pcPosts = "start"
    /\ \E ok \in BOOLEAN :
          LET r == fetchSubstackFeed(ok)
          IN /\ pcPosts' = IF r.threw THEN "threw" ELSE "sitemap"
             /\ rssPosts' = IF r.threw THEN rssPosts ELSE RssPostsOf(r.items, clock)
             /\ errorLog' = IF r.logged THEN errorLog \cup {"feed:getPosts"} ELSE errorLog
    /\ UNCHANGED <<net, olderUrls, offset, results, olderPosts, posts,
                   pcPodcasts, rssEpisodes, podcasts, fetchCount>>
    /\ clock' = clock + 1
    /\ UNCHANGED excerptCall

\* rss.ts:208-218
PostsFetchSitemap ==
    /\ pcPosts = "sitemap"
    /\ \E ok \in BOOLEAN :
          LET r == fetchSitemapUrls(ok)
              sel == OlderUrlsOf(r.urls, rssPosts)
          IN /\ olderUrls' = sel
             /\ results' = [k \in DOMAIN sel |-> Idle]
             /\ errorLog' = IF r.logged THEN errorLog \cup {"sitemap"} ELSE errorLog
    /\ offset' = 0
    /\ olderPosts' = <<>>
    /\ pcPosts' = "loop"
    /\ UNCHANGED <<net, rssPosts, posts, pcPodcasts, rssEpisodes, podcasts, fetchCount>>
    /\ clock' = clock + 1
    /\ UNCHANGED excerptCall

\* rss.ts:219-221: batch.map(fetchPostMetadata) starts every fetch of the batch
PostsStartBatch ==
    /\ pcPosts = "loop"
    /\ offset < Len(olderUrls)
    /\ LET batch == Batch(offset, Len(olderUrls))
       IN /\ results' = [k \in DOMAIN results |->
                            IF k \in batch THEN Pending ELSE results[k]]
          /\ fetchCount' = [u \in DOMAIN fetchCount |->
                fetchCount[u] + Cardinality({k \in batch : olderUrls[k] = u})]
    /\ pcPosts' = "await"
    /\ UNCHANGED <<net, rssPosts, olderUrls, offset, olderPosts, posts,
                   pcPodcasts, rssEpisodes, podcasts, errorLog>>
    /\ clock' = clock + 1
    /\ UNCHANGED excerptCall

\* rss.ts:150-186: one pending fetchPostMetadata settles; a rejection rejects
\* Promise.all and with it getPosts
PageSettle(k) ==
    /\ pcPosts = "await"
    /\ results[k].st = "pending"
    /\ \E ok \in (IF olderUrls[k] \in net.flaky THEN BOOLEAN ELSE {TRUE}) :
       \E html \in net.pages[olderUrls[k]] :
          LET r == fetchPostMetadata(olderUrls[k], ok, html, clock)
          IN /\ results' = [results EXCEPT ![k] =
                    IF r.threw THEN [st |-> "rejected", post |-> NullPost]
                    ELSE IF r.isNull THEN [st |-> "null", post |-> NullPost]
                    ELSE [st |-> "post", post |-> r.post]]
             /\ pcPosts' = IF r.threw THEN "threw" ELSE pcPosts
             /\ errorLog' = IF r.logged THEN errorLog \cup {"page:" \o ToString(k)}
                            ELSE errorLog
    /\ UNCHANGED <<net, rssPosts, olderUrls, offset, olderPosts, posts,
                   pcPodcasts, rssEpisodes, podcasts, fetchCount>>
    /\ clock' = clock + 1
    /\ UNCHANGED excerptCall

\* rss.ts:221-227: Promise.all resolves once every fetch of the batch has
PostsJoinBatch ==
    /\ pcPosts = "await"
    /\ LET batch == Batch(offset, Len(olderUrls))
       IN /\ \A k \in batch : results[k].st \in {"null", "post"}
          /\ olderPosts' = olderPosts \o KeptResults(results, batch)
    /\ offset' = offset + batchSize
    /\ pcPosts' = "loop"
    /\ UNCHANGED <<net, rssPosts, olderUrls, results, posts,
                   pcPodcasts, rssEpisodes, podcasts, fetchCount, errorLog>>
    /\ clock' = clock + 1
    /\ UNCHANGED excerptCall

\* rss.ts:229-233
PostsReturn ==
    /\ pcPosts = "loop"
    /\ offset >= Len(olderUrls)
    /\ posts' = SortByDate(rssPosts \o olderPosts)
    /\ pcPosts' = "done"
    /\ UNCHANGED <<net, rssPosts, olderUrls, offset, results, olderPosts,
                   pcPodcasts, rssEpisodes, podcasts, fetchCount, errorLog>>
    /\ clock' = clock + 1
    /\ UNCHANGED excerptCall

\* ------------------------------------------------------------- getPodcasts
\* rss.ts:292-294
RssEpisodesOf(items, now) ==
    LET kept == FilterIdx(items, {k \in DOMAIN items : isPodcastEpisode(items[k])})
    IN [k \in DOMAIN kept |-> transformToPodcast(kept[k], now)]

RECURSIVE MergeStatic(_, _)
\* rss.ts:297-302: from static entry k on
MergeStatic(allEpisodes, k) ==
    IF k > Len(STATIC_PODCASTS) THEN allEpisodes
    ELSE MergeStatic(
             IF \E j \in DOMAIN allEpisodes : allEpisodes[j].link = STATIC_PODCASTS[k].link
             THEN allEpisodes
             ELSE Append(allEpisodes, STATIC_PODCASTS[k]),
             k + 1)

\* rss.ts:289-308.  getPosts and getPodcasts share no state: the model runs
\* the one after the other
PodcastsRun ==
    /\ pcPodcasts = "start"
    /\ pcPosts \in {"done", "threw"}
    /\ \E ok \in BOOLEAN :
          LET r == fetchSubstackFeed(ok)
              eps == RssEpisodesOf(r.items, clock)
          IN /\ pcPodcasts' = IF r.threw THEN "threw" ELSE "done"
             /\ rssEpisodes' = IF r.threw THEN rssEpisodes ELSE eps
             /\ podcasts' = IF r.threw THEN podcasts ELSE SortByDate(MergeStatic(eps, 1))
             /\ errorLog' = IF r.logged THEN errorLog \cup {"feed:getPodcasts"}
                            ELSE errorLog
    /\ UNCHANGED <<net, pcPosts, rssPosts, olderUrls, offset, results, olderPosts,
                   posts, fetchCount>>
    /\ clock' = clock + 1
    /\ UNCHANGED excerptCall

Next ==
    \/ PostsFetchFeed
    \/ PostsFetchSitemap
    \/ PostsStartBatch
    \/ \E k \in DOMAIN results : PageSettle(k)
    \/ PostsJoinBatch
    \/ PostsReturn
    \/ PodcastsRun

Spec == Init /\ [][Next]_vars

\* the crawl scenario
SpecCrawl == InitCrawl /\ [][Next]_vars

\* ------------------------------------------------- cleanExcerpt on its own
InitExcerpt ==
    /\ net = [feed |-> <<>>, sitemap |-> <<>>, pages |-> <<>>, flaky |-> {}]
    /\ InitLocals
    /\ \E present \in BOOLEAN : \E text \in SeqsUpTo(TextChars, MaxText) :
       \E n \in 0..MaxLen :
           /\ present \/ text = <<>>
           /\ excerptCall = [pc |-> "call", snippet |-> [present |-> present, text |-> text],
                             maxLength |-> n, out |-> <<>>]

\* rss.ts:89-95
CleanExcerptReturn ==
    /\ excerptCall.pc = "call"
    /\ excerptCall' = [excerptCall EXCEPT
           !.pc = "returned",
           !.out = cleanExcerpt(excerptCall.snippet, excerptCall.maxLength)]
    /\ UNCHANGED feedVars

NextExcerpt == CleanExcerptReturn

SpecExcerpt == InitExcerpt /\ [][NextExcerpt]_vars

\* ================================================================= claims
PostsDone == pcPosts = "done"
PodcastsDone == pcPodcasts = "done"
\* the catch branch of fetchSubstackFeed ran in getPosts / in getPodcasts
FeedFailedInPosts == "feed:getPosts" \in errorLog
FeedFailedInPodcasts == "feed:getPodcasts" \in errorLog

Links(list) == {list[k].link : k \in DOMAIN list}
UniqueLinks(list) ==
    \A i \in DOMAIN list : \A j \in DOMAIN list : i # j => list[i].link # list[j].link
SameEntries(a, b) ==
    /\ Len(a) = Len(b)
    /\ \A e \in Range(a) \cup Range(b) : Occurrences(a, e) = Occurrences(b, e)

\* a.pubDate >= b.pubDate as times; false when either is no date
DateGeq(a, b) ==
    /\ GetTime(a.pubDate) # NaN
    /\ GetTime(b.pubDate) # NaN
    /\ GetTime(a.pubDate) >= GetTime(b.pubDate)
NewestFirst(list) ==
    \A k \in 1..(Len(list) - 1) : DateGeq(list[k], list[k + 1])

\* the feed titles that carry the headphone marker or "episode <digit>"
MarkedTitles == {TitleEmoji, TitleEpisode}

\* ---- C1
\* C1 as stated: when the feed fetch of getPosts fails, getPosts never raises
\* and returns the empty list, whatever the site map and the pages return.
C1_EmptyOnFeedFailure ==
    /\ pcPosts # "threw"
    /\ (PostsDone /\ FeedFailedInPosts) => posts = <<>>

\* C1 amended: when the feed fetch of getPosts fails, getPosts never raises and
\* its result holds no feed-derived entry: it is exactly the posts of the
\* archive crawl, which still runs; it is empty only when the crawl yields none.
C1_FeedFailureLeavesArchive ==
    /\ pcPosts # "threw"
    /\ (pcPosts # "start" /\ FeedFailedInPosts) => rssPosts = <<>>
    /\ (PostsDone /\ FeedFailedInPosts) =>
          /\ SameEntries(posts, olderPosts)
          /\ \A k \in DOMAIN posts :
                /\ posts[k].link \in Range(net.sitemap)
                /\ fetchCount[posts[k].link] > 0

C1_Witness ==
    /\ PostsDone
    /\ FeedFailedInPosts
    /\ net.feed # <<>>
    /\ \E k \in DOMAIN net.feed : ~isPodcastEpisode(net.feed[k])
    /\ posts # <<>>

\* ---- C2
\* C2: the lists returned by getPosts and by getPodcasts each hold at most one
\* entry per link, also when one source lists a link twice.
C2_UniqueLinks ==
    /\ PostsDone => UniqueLinks(posts)
    /\ PodcastsDone => UniqueLinks(podcasts)

\* ---- C3
\* C3: in the lists returned by getPosts and by getPodcasts every adjacent
\* pair (a, b) has a.pubDate >= b.pubDate, for any input entries.
C3_NewestFirst ==
    /\ PostsDone => NewestFirst(posts)
    /\ PodcastsDone => NewestFirst(podcasts)

\* ---- C4
\* C4: getPodcasts gap-fills: a static entry whose link no feed-derived episode
\* has appears exactly once; a link present in both has exactly one entry, the
\* feed-derived one; every feed-derived episode appears.
C4_GapFill ==
    PodcastsDone =>
        /\ \A k \in DOMAIN STATIC_PODCASTS :
              LET e == STATIC_PODCASTS[k]
              IN IF e.link \in Links(rssEpisodes)
                 THEN /\ Cardinality({j \in DOMAIN podcasts : podcasts[j].link = e.link}) = 1
                      /\ \A j \in DOMAIN podcasts :
                            podcasts[j].link = e.link => podcasts[j] \in Range(rssEpisodes)
                 ELSE Occurrences(podcasts, e) = 1
        /\ \A e \in Range(rssEpisodes) : e \in Range(podcasts)

\* ---- C5
\* C5 as stated: every feed entry with an audio/ enclosure is classified as a
\* podcast whatever its title, so it is in getPodcasts and never in getPosts.
C5_AudioIsPodcast ==
    \A k \in DOMAIN net.feed :
        net.feed[k].enclosure = "audio/mpeg" =>
            /\ (pcPosts \notin {"start", "threw"} /\ ~FeedFailedInPosts) =>
                  net.feed[k].link \notin Links(rssPosts)
            /\ (PodcastsDone /\ ~FeedFailedInPodcasts) =>
                  net.feed[k].link \in Links(rssEpisodes)

\* C5 amended: the classifier reads the title alone: a feed entry with an
\* audio/ enclosure is routed to getPodcasts exactly when its title carries
\* the headphone marker or "episode <digit>", and to getPosts otherwise.
C5_TitleAloneDecides ==
    \A k \in DOMAIN net.feed :
        LET item == net.feed[k]
        IN item.enclosure = "audio/mpeg" =>
            /\ (pcPosts \notin {"start", "threw"} /\ ~FeedFailedInPosts) =>
                  ((\E j \in DOMAIN rssPosts :
                        rssPosts[j].link = item.link /\ rssPosts[j].title = item.title)
                   <=> item.title \notin MarkedTitles)
            /\ (PodcastsDone /\ ~FeedFailedInPodcasts) =>
                  ((item.link \in Links(rssEpisodes)) <=> item.title \in MarkedTitles)

C5_Witness ==
    /\ PostsDone /\ ~FeedFailedInPosts
    /\ PodcastsDone /\ ~FeedFailedInPodcasts
    /\ ItemAwe7 \in Range(net.feed)
    /\ UrlAwe7 \in Links(posts)
    /\ ItemShow \in Range(net.feed)
    /\ UrlShow8 \in Links(rssEpisodes)

\* ---- C6
Started(k) == results[k].st # "idle"
Settled(k) == results[k].st \in {"null", "post"}
BatchOf(k) == (k - 1) \div 10

ExpectedOlderPosts ==
    LET keep == {k \in DOMAIN results :
                    results[k].st = "post" /\ results[k].post.title \notin MarkedTitles}
        sel == FilterIdx(results, keep)
    IN [j \in DOMAIN sel |-> sel[j].post]

\* C7: a failed page fetch is omitted and nothing else: getPosts never raises,
\* every selected page of the same and of later batches is still fetched, and
\* the result holds the feed posts plus every fetched page that is no podcast.
C7_PageFailureIsLocal ==
    /\ pcPosts # "threw"
    /\ PostsDone =>
          /\ \A k \in DOMAIN olderUrls : Settled(k) /\ fetchCount[olderUrls[k]] >= 1
          /\ olderPosts = ExpectedOlderPosts
          /\ SameEntries(posts, rssPosts \o olderPosts)
          /\ \A u \in Range(olderUrls) :
                (\A k \in DOMAIN olderUrls : olderUrls[k] = u => results[k].st = "null")
                    => u \notin Links(olderPosts)

C7_Witness ==
    /\ PostsDone
    /\ Len(olderUrls) > 10
    /\ results[5].st = "null"
    /\ results[3].st = "post"
    /\ results[11].st = "post"
    /\ results[2].st = "post" /\ results[2].post.title \in MarkedTitles
    /\ olderUrls[5] \notin Links(posts)
    /\ olderUrls[3] \in Links(posts)
    /\ olderUrls[11] \in Links(posts)

\* ---- C8
\* the links of the entries the primary feed returned to getPosts
FeedReturnedLinks ==
    IF pcPosts = "start" \/ FeedFailedInPosts THEN {}
    ELSE {net.feed[k].link : k \in DOMAIN net.feed}

\* C8: the crawler fetches exactly the site-map post URLs that match no
\* denylist pattern and are the link of no entry the feed returned, post or
\* podcast; no other URL is fetched or added as an archive-derived post.
C8_CrawlSkipsFeedLinks ==
    /\ \A u \in DOMAIN fetchCount :
          fetchCount[u] > 0 => (~isExcludedUrl(u) /\ u \notin FeedReturnedLinks)
    /\ \A k \in DOMAIN olderPosts :
          ~isExcludedUrl(olderPosts[k].link) /\ olderPosts[k].link \notin FeedReturnedLinks
    /\ (PostsDone /\ "sitemap" \notin errorLog) =>
          \A u \in Range(net.sitemap) :
              (MatchesLocRegex(u) /\ ~isExcludedUrl(u) /\ u \notin FeedReturnedLinks)
                  => fetchCount[u] > 0

\* ---- C10
\* C10: no link is both in the list of getPosts and in the list of
\* getPodcasts; a feed entry classified as a podcast and every static podcast
\* link is never brought into the posts by the archive crawl.
C10_PostsAndPodcastsDisjoint ==
    /\ (PostsDone /\ PodcastsDone) => Links(posts) \cap Links(podcasts) = {}
    /\ \A k \in DOMAIN olderPosts :
          /\ olderPosts[k].link \notin Links(STATIC_PODCASTS)
          /\ \A j \in DOMAIN net.feed :
                isPodcastEpisode(net.feed[j]) => olderPosts[k].link # net.feed[j].link

\* ---- C9
Returned == excerptCall.pc = "returned"
\* the entity-decoded, whitespace-collapsed, trimmed source text
CleanedText == Trim(CollapseBlanks(decodeHtmlEntities(excerptCall.snippet.text)))
Truncated == Returned /\ excerptCall.snippet.present /\ Len(CleanedText) > excerptCall.maxLength
HasBlank(s) == \E k \in DOMAIN s : IsBlank(s[k])
\* the first n characters of c end a whole word: the next character is a blank
EndsWord(c, n) == n < Len(c) /\ IsBlank(c[n + 1]) /\ (n = 0 \/ ~IsBlank(c[n]))

\* C9 as stated: the output is at most maxLength + 3 long; a truncated output
\* is a prefix of the collapsed text that ends at a whole-word boundary,
\* followed by the marker; empty or absent input yields the empty string.
C9_NeverMidWord ==
    /\ Returned => Len(excerptCall.out) <= excerptCall.maxLength + 3
    /\ (Returned /\ (~excerptCall.snippet.present \/ excerptCall.snippet.text = <<>>))
          => excerptCall.out = <<>>
    /\ Truncated =>
          \E n \in 0..excerptCall.maxLength :
              /\ excerptCall.out = SubSeq(CleanedText, 1, n) \o Ellipsis
              /\ (n = 0 \/ EndsWord(CleanedText, n))

\* C9 amended: as stated, except that the prefix ends at a whole-word boundary
\* only when the first maxLength characters of the collapsed text hold a
\* blank; when they hold none, the prefix is those maxLength characters,
\* whether or not a word ends there.
C9_WordBoundaryWhenBlank ==
    /\ Returned => Len(excerptCall.out) <= excerptCall.maxLength + 3
    /\ (Returned /\ (~excerptCall.snippet.present \/ excerptCall.snippet.text = <<>>))
          => excerptCall.out = <<>>
    /\ (Returned /\ ~Truncated) => excerptCall.out = CleanedText
    /\ Truncated =>
          LET head == SubSeq(CleanedText, 1, excerptCall.maxLength)
          IN IF HasBlank(head)
             THEN \E n \in 1..(excerptCall.maxLength - 1) :
                      /\ excerptCall.out = SubSeq(CleanedText, 1, n) \o Ellipsis
                      /\ EndsWord(CleanedText, n)
             ELSE excerptCall.out = head \o Ellipsis

C9_Witness ==
    /\ Truncated
    /\ HasBlank(SubSeq(CleanedText, 1, excerptCall.maxLength))
    /\ excerptCall.snippet.text # CleanedText
    /\ Len(excerptCall.out) = 4

====
